---------------------------- MODULE Spec2Model ----------------------------
(***************************************************************************)
(* LyapController (lyapunovController.cpp): a trajectory store (desired    *)
(* poses and desired inputs), the two trajectory loads, the time-indexed   *)
(* lookup, the control step and the completion flag.                       *)
(*                                                                         *)
(* Besides the controller's fields the state holds what the caller sees  *)
(* of the last call: its arguments (args, for step and copyTrajectory),   *)
(* its output (u_out), the exception it raised, the lookup index it used  *)
(* and its name (last_op).                                                *)
(*                                                                         *)
(* Numbers.  Lengths, velocities and times are integers.  Angles are       *)
(* counted in quarter turns (1 = pi/2), the grid on which cos and sin are  *)
(* exactly -1, 0 or 1; angular rates are quarter turns per time unit.      *)
(* Times are integers and the step time dt is an integer, so t / dt is a   *)
(* rational whose rounding is computed exactly.                            *)
(***************************************************************************)
EXTENDS Integers, Sequences, FiniteSets, TLC

MaxLen == 2
MaxStore == 2
MaxTime == 6

VARIABLES
    Kp, Ktheta,
    current_time, time_end,
    e_x, e_y, e_theta,
    finished,
    pose_desired, u_desired,
    pose_offset,
    RobotModel,
    u_out, raised, index, last_op, args

vars == <<Kp, Ktheta, current_time, time_end, e_x, e_y, e_theta, finished,
          pose_desired, u_desired, pose_offset, RobotModel,
          u_out, raised, index, last_op, args>>

(* ------------------------------------------------------------------ *)
(* Input domains                                                       *)
(* ------------------------------------------------------------------ *)
KpValues == {2}
KthetaValues == {3}
DtValues == {2, 3}
Offsets == {<<0, 0, 0>>, <<1, 2, 1>>}
InputValues == {<<2, 0>>, <<1, 1>>}
PoseInputs == {<<0, 0, 0>>}
TimeValues == {0 - 1} \cup 0..MaxTime

(* the sample arrays a caller hands to copyTrajectory: the first k       *)
(* samples of a path authored in the local frame, each array with its    *)
(* own length                                                            *)
vSample(i) == 1 + (i % 2)
omegaSample(i) == (i + 1) % 2
xSample(i) == i
ySample(i) == i % 2
thetaSample(i) == (i - 1) % 4
Lengths == 0..MaxLen
vArray(k) == [i \in 1..k |-> vSample(i)]
omegaArray(k) == [i \in 1..k |-> omegaSample(i)]
xArray(k) == [i \in 1..k |-> xSample(i)]
yArray(k) == [i \in 1..k |-> ySample(i)]
thetaArray(k) == [i \in 1..k |-> thetaSample(i)]

NoError == "none"
DESIRED_TRAJECTORY_INCOMPLETE == "DESIRED_TRAJECTORY_INCOMPLETE"
OutOfRange == "std::out_of_range"

(* ------------------------------------------------------------------ *)
(* Arithmetic helpers                                                  *)
(* ------------------------------------------------------------------ *)
cos(q) == CASE q % 4 = 0 -> 1
            [] q % 4 = 1 -> 0
            [] q % 4 = 2 -> 0 - 1
            [] OTHER -> 0

sin(q) == CASE q % 4 = 0 -> 0
            [] q % 4 = 1 -> 1
            [] q % 4 = 2 -> 0
            [] OTHER -> 0 - 1

(* C round() of the quotient t / d (d > 0): nearest integer, halves away *)
(* from zero                                                             *)
round(t, d) == IF t >= 0 THEN (2 * t + d) \div (2 * d)
               ELSE 0 - ((2 * (0 - t) + d) \div (2 * d))

(* wrap an angle to (-pi, pi], i.e. to -1..2 quarter turns *)
angleWithinPI(q) == IF q % 4 > 2 THEN (q % 4) - 4 ELSE q % 4

Min(a, b) == IF a <= b THEN a ELSE b

(* ------------------------------------------------------------------ *)
(* Kinematic model (UnicycleModel)                                     *)
(* ------------------------------------------------------------------ *)
getStepTime == RobotModel.dt

resetState(m, pose) == [m EXCEPT !.state = pose]

setControlInput(m, u) == [m EXCEPT !.u = u]

integrate(m) ==
    LET x == m.state[1]
        y == m.state[2]
        th == m.state[3]
        v == m.u[1]
        om == m.u[2]
    IN [m EXCEPT !.state = <<x + v * m.dt * cos(th),
                              y + v * m.dt * sin(th),
                              th + om * m.dt>>]

(* integrateState: the model after one input, whose state is pose_next *)
integrateState(m, u) == integrate(setControlInput(m, u))

(* ------------------------------------------------------------------ *)
(* Trajectory store                                                    *)
(* ------------------------------------------------------------------ *)
computeMaxTime(poses) == getStepTime * Len(poses)

(* an index truncated instead of rounded *)
getIndexIntegerBasedOnTime_truncated(t) ==
    LET n_max == Len(pose_desired)
        idx == IF t >= 0 THEN t \div getStepTime
               ELSE 0 - ((0 - t) \div getStepTime)
    IN IF idx >= n_max THEN n_max - 1 ELSE idx

(* an index that is not clamped to the last sample *)
getIndexIntegerBasedOnTime_unclamped(t) == round(t, getStepTime)

getIndexIntegerBasedOnTime(t) ==
    LET n_max == Len(pose_desired)
        idx == round(t, getStepTime)
    IN IF idx >= n_max THEN n_max - 1 ELSE idx

(* vector::at(i) with a C++ 0-based int index: in range or it throws *)
InRange(s, i) == i >= 0 /\ i < Len(s)
At(s, i) == s[i + 1]

addToInputDesired(inputs, v, omega) == Append(inputs, <<v, omega>>)

addStateDesired(poses, pose_des) == Append(poses, pose_des)

(* ------------------------------------------------------------------ *)
(* Control law                                                         *)
(* ------------------------------------------------------------------ *)
ZeroVel == [v |-> 0, w |-> <<0>>]

(* errors taken as sums instead of differences *)
updateTrackingErrors_sum(pose_ref, pose) ==
    [e_x |-> pose[1] + pose_ref[1],
     e_y |-> pose[2] + pose_ref[2],
     e_theta |-> angleWithinPI(pose[3] + pose_ref[3])]

(* updateTrackingErrors: the new (e_x, e_y, e_theta) *)
updateTrackingErrors(pose_ref, pose) ==
    [e_x |-> pose[1] - pose_ref[1],
     e_y |-> pose[2] - pose_ref[2],
     e_theta |-> angleWithinPI(pose[3] - pose_ref[3])]

(* The command u_ref + du.  The linear part is an integer: with          *)
(* psi = atan2(e_y, e_x) and e_xy = sqrt(e_x^2 + e_y^2),                  *)
(*   e_xy * cos(theta - psi) = e_x * cos(theta) + e_y * sin(theta).       *)
(* The angular part involves sinc and sin of angles off the grid; it is   *)
(* kept as the tuple of the operands of its formula,                      *)
(*   <<omega_ref, Ktheta, e_theta, v_ref, e_y, e_x, alpha>>,              *)
(* and a one-element tuple <<c>> is the number c.                         *)
lawOutput(u_ref, pose_ref, pose, e) ==
    LET alpha == pose[3] + pose_ref[3]
        v_ref == u_ref[1]
        du0 == 0 - Kp * (e.e_x * cos(pose[3]) + e.e_y * sin(pose[3]))
    IN [v |-> v_ref + du0,
        w |-> <<u_ref[2], Ktheta, e.e_theta, v_ref, e.e_y, e.e_x, alpha>>]

(* computeLaw yields what the call leaves in u_out, in the cached errors  *)
(* and in the lookup index, and what it throws.                          *)
keepErrors == [e_x |-> e_x, e_y |-> e_y, e_theta |-> e_theta]

(* a guard that wants both sequences empty before it refuses *)
trajectoryIncomplete_bothEmpty == u_desired = <<>> /\ pose_desired = <<>>

trajectoryIncomplete == u_desired = <<>> \/ pose_desired = <<>>

lawIncomplete ==
    [raised |-> DESIRED_TRAJECTORY_INCOMPLETE, u_out |-> <<ZeroVel>>,
     e |-> keepErrors, index |-> <<>>]

lawFinished ==
    [raised |-> NoError, u_out |-> <<ZeroVel>>, e |-> keepErrors,
     index |-> <<>>]

(* the law proper: both lookups use the same index; u_desired.at(index)  *)
(* comes first and throws before anything is written                     *)
lawTracking(pose) ==
    LET idx == getIndexIntegerBasedOnTime(current_time)
    IN IF ~InRange(u_desired, idx) \/ ~InRange(pose_desired, idx)
       THEN [raised |-> OutOfRange, u_out |-> <<>>, e |-> keepErrors,
             index |-> <<idx>>]
       ELSE LET u_ref == At(u_desired, idx)
                pose_ref == At(pose_desired, idx)
                e == updateTrackingErrors(pose_ref, pose)
            IN [raised |-> NoError,
                u_out |-> <<lawOutput(u_ref, pose_ref, pose, e)>>,
                e |-> e, index |-> <<idx>>]

(* a law that is evaluated whether or not the trajectory is finished *)
computeLaw_ignoresFinished(pose) ==
    IF trajectoryIncomplete THEN lawIncomplete ELSE lawTracking(pose)

computeLaw(pose) ==
    IF trajectoryIncomplete THEN lawIncomplete
    ELSE IF finished THEN lawFinished
    ELSE lawTracking(pose)

(* a completion check that assigns the comparison instead of latching *)
endReached_notLatched == current_time >= computeMaxTime(pose_desired)

(* a completion check that compares strictly *)
endReached_strict ==
    IF current_time > computeMaxTime(pose_desired) THEN TRUE ELSE finished

(* endReached: the value of finished after the completion check *)
endReached ==
    IF current_time >= computeMaxTime(pose_desired) THEN TRUE ELSE finished

(* a step that advances the clock itself *)
step_advancesTime(pose) ==
    LET r == computeLaw(pose)
    IN /\ e_x' = r.e.e_x
       /\ e_y' = r.e.e_y
       /\ e_theta' = r.e.e_theta
       /\ u_out' = r.u_out
       /\ raised' = r.raised
       /\ index' = r.index
       /\ finished' = IF r.raised = NoError THEN endReached ELSE finished
       /\ last_op' = "step"
       /\ args' = <<pose>>
       /\ current_time' = current_time + getStepTime
       /\ UNCHANGED <<Kp, Ktheta, time_end, pose_desired, u_desired,
                      pose_offset, RobotModel>>

step(pose) ==
    LET r == computeLaw(pose)
    IN /\ e_x' = r.e.e_x
       /\ e_y' = r.e.e_y
       /\ e_theta' = r.e.e_theta
       /\ u_out' = r.u_out
       /\ raised' = r.raised
       /\ index' = r.index
       /\ finished' = IF r.raised = NoError THEN endReached ELSE finished
       /\ last_op' = "step"
       /\ args' = <<pose>>
       /\ UNCHANGED <<Kp, Ktheta, current_time, time_end, pose_desired,
                      u_desired, pose_offset, RobotModel>>

(* ------------------------------------------------------------------ *)
(* Trajectory loads                                                    *)
(* ------------------------------------------------------------------ *)
(* a rotation with the sign of the sine terms exchanged *)
rotoTranslate_signSlip(x, y, theta) ==
    LET theta_offset == pose_offset[3]
    IN <<pose_offset[1] + (cos(theta_offset) * x + sin(theta_offset) * y),
         pose_offset[2] + (cos(theta_offset) * y - sin(theta_offset) * x),
         theta_offset + theta>>

rotoTranslate(x, y, theta) ==
    LET theta_offset == pose_offset[3]
    IN <<pose_offset[1] + (cos(theta_offset) * x - sin(theta_offset) * y),
         pose_offset[2] + (sin(theta_offset) * x + cos(theta_offset) * y),
         theta_offset + theta>>

(* copyTrajectory: v.at(i), omega.at(i), ... throw at the first index    *)
(* past the end of a shorter array, leaving what was appended so far     *)
copyTrajectory(v, omega, x, y, theta) ==
    LET nu == Min(Len(v), Len(omega))
        throwsU == Len(omega) < Len(v)
        np == Min(Len(x), Min(Len(y), Len(theta)))
        throwsP == np < Len(x)
        inputs == u_desired \o [i \in 1..nu |-> <<v[i], omega[i]>>]
        poses == pose_desired \o
                   [i \in 1..np |-> rotoTranslate(x[i], y[i], theta[i])]
    IN IF throwsU
       THEN [raised |-> OutOfRange, u_desired |-> inputs,
             pose_desired |-> pose_desired, time_end |-> time_end,
             finished |-> finished]
       ELSE IF throwsP
       THEN [raised |-> OutOfRange, u_desired |-> inputs,
             pose_desired |-> poses, time_end |-> time_end,
             finished |-> finished]
       ELSE [raised |-> NoError, u_desired |-> inputs,
             pose_desired |-> poses, time_end |-> computeMaxTime(poses),
             finished |-> FALSE]

(* a loop that stores the pose before integrating the input *)
RECURSIVE generateLoop_storesFirst(_, _, _)
generateLoop_storesFirst(i, m, poses) ==
    IF i >= Len(u_desired)
    THEN [model |-> m, poses |-> poses]
    ELSE LET m2 == integrateState(m, At(u_desired, i))
         IN generateLoop_storesFirst(i + 1, m2, addStateDesired(poses, m.state))

RECURSIVE generateLoop(_, _, _)
generateLoop(i, m, poses) ==
    IF i >= Len(u_desired)
    THEN [model |-> m, poses |-> poses]
    ELSE LET m2 == integrateState(m, At(u_desired, i))
         IN generateLoop(i + 1, m2, addStateDesired(poses, m2.state))

(* a generation that does not reset the model to the offset pose *)
generateTrajectory_noReset ==
    LET r == generateLoop(0, RobotModel, pose_desired)
    IN [RobotModel |-> r.model, pose_desired |-> r.poses,
        time_end |-> computeMaxTime(r.poses), finished |-> FALSE]

(* a generation that computes time_end before the poses are appended *)
generateTrajectory_staleEnd ==
    LET r == generateLoop(0, resetState(RobotModel, pose_offset), pose_desired)
    IN [RobotModel |-> r.model, pose_desired |-> r.poses,
        time_end |-> computeMaxTime(pose_desired), finished |-> FALSE]

generateTrajectory ==
    LET r == generateLoop(0, resetState(RobotModel, pose_offset), pose_desired)
    IN [RobotModel |-> r.model, pose_desired |-> r.poses,
        time_end |-> computeMaxTime(r.poses), finished |-> FALSE]

(* ------------------------------------------------------------------ *)
(* Operations                                                          *)
(* ------------------------------------------------------------------ *)
(* the poses a caller measures: a fixed one, and the robot standing      *)
(* exactly on the sample the lookup would select                         *)
OnReference ==
    LET idx == getIndexIntegerBasedOnTime(current_time)
    IN IF InRange(pose_desired, idx) THEN {At(pose_desired, idx)} ELSE {}

StepCall ==
    \E pose \in PoseInputs \cup OnReference : step(pose)

(* the caller's arrays: v and x of any length up to MaxLen, y and theta   *)
(* as long as x, omega as long as v or one sample short                  *)
OmegaLengths(lv) == IF lv > 0 THEN {lv - 1, lv} ELSE {lv}

CopyTrajectoryCall ==
    \E lv \in Lengths, lx \in Lengths :
       \E lo \in OmegaLengths(lv) :
          /\ Len(u_desired) + lv <= MaxStore
          /\ Len(pose_desired) + lx <= MaxStore
          /\ LET r == copyTrajectory(vArray(lv), omegaArray(lo), xArray(lx),
                                     yArray(lx), thetaArray(lx))
             IN /\ u_desired' = r.u_desired
                /\ pose_desired' = r.pose_desired
                /\ time_end' = r.time_end
                /\ finished' = r.finished
                /\ raised' = r.raised
          /\ u_out' = <<>>
          /\ index' = <<>>
          /\ last_op' = "copyTrajectory"
          /\ args' = <<vArray(lv), omegaArray(lo), xArray(lx), yArray(lx),
                       thetaArray(lx)>>
          /\ UNCHANGED <<Kp, Ktheta, current_time, e_x, e_y, e_theta,
                         pose_offset, RobotModel>>

GenerateTrajectoryCall ==
    /\ Len(pose_desired) + Len(u_desired) <= MaxStore
    /\ LET r == generateTrajectory
       IN /\ RobotModel' = r.RobotModel
          /\ pose_desired' = r.pose_desired
          /\ time_end' = r.time_end
          /\ finished' = r.finished
    /\ u_out' = <<>>
    /\ raised' = NoError
    /\ index' = <<>>
    /\ last_op' = "generateTrajectory"
    /\ args' = <<>>
    /\ UNCHANGED <<Kp, Ktheta, current_time, e_x, e_y, e_theta, u_desired,
                   pose_offset>>

AddToInputDesiredCall ==
    \E u \in InputValues :
       /\ Len(u_desired) < MaxStore
       /\ u_desired' = addToInputDesired(u_desired, u[1], u[2])
       /\ u_out' = <<>>
       /\ raised' = NoError
       /\ index' = <<>>
       /\ last_op' = "set"
       /\ args' = <<>>
       /\ UNCHANGED <<Kp, Ktheta, current_time, time_end, e_x, e_y, e_theta,
                      finished, pose_desired, pose_offset, RobotModel>>

(* the caller's clock: current_time is set from outside the controller *)
SetCurrentTime ==
    \E t \in TimeValues :
       /\ current_time' = t
       /\ u_out' = <<>>
       /\ raised' = NoError
       /\ index' = <<>>
       /\ last_op' = "set"
       /\ args' = <<>>
       /\ UNCHANGED <<Kp, Ktheta, time_end, e_x, e_y, e_theta, finished,
                      pose_desired, u_desired, pose_offset, RobotModel>>

(* the caller fixes the pose offset of the loads *)
SetPoseOffset ==
    \E o \in Offsets :
       /\ pose_offset' = o
       /\ u_out' = <<>>
       /\ raised' = NoError
       /\ index' = <<>>
       /\ last_op' = "set"
       /\ args' = <<>>
       /\ UNCHANGED <<Kp, Ktheta, current_time, time_end, e_x, e_y, e_theta,
                      finished, pose_desired, u_desired, RobotModel>>

Init ==
    /\ Kp \in KpValues
    /\ Ktheta \in KthetaValues
    /\ current_time = 0
    /\ time_end = 0
    /\ e_x = 0
    /\ e_y = 0
    /\ e_theta = 0
    /\ finished = TRUE
    /\ pose_desired = <<>>
    /\ u_desired = <<>>
    /\ pose_offset \in Offsets
    /\ \E d \in DtValues :
         RobotModel = [state |-> <<0, 0, 0>>, u |-> <<0, 0>>, dt |-> d]
    /\ u_out = <<>>
    /\ raised = NoError
    /\ index = <<>>
    /\ last_op = "ctor"
    /\ args = <<>>

Next ==
    \/ StepCall
    \/ CopyTrajectoryCall
    \/ GenerateTrajectoryCall
    \/ AddToInputDesiredCall
    \/ SetCurrentTime
    \/ SetPoseOffset

Spec == Init /\ [][Next]_vars

(* ------------------------------------------------------------------ *)
(* A tracking session: the caller loads with the clock at 0, then runs  *)
(* its control loop, one step and one clock tick of dt at a time, until *)
(* the controller reports finished or a step throws.                    *)
(* ------------------------------------------------------------------ *)
started == last_op \in {"step", "advanceTime"}

(* the tick leaves the results of the step it follows with the caller *)
AdvanceTime ==
    /\ last_op = "step"
    /\ raised = NoError
    /\ ~finished
    /\ current_time' = current_time + getStepTime
    /\ last_op' = "advanceTime"
    /\ UNCHANGED <<Kp, Ktheta, time_end, e_x, e_y, e_theta, finished,
                   pose_desired, u_desired, pose_offset, RobotModel,
                   u_out, raised, index, args>>

TrackStep ==
    /\ ~finished
    /\ last_op # "step"
    /\ StepCall

NextTrack ==
    \/ ~started /\ CopyTrajectoryCall
    \/ ~started /\ GenerateTrajectoryCall
    \/ ~started /\ AddToInputDesiredCall
    \/ ~started /\ SetPoseOffset
    \/ TrackStep
    \/ AdvanceTime

SpecTrack ==
    Init /\ [][NextTrack]_vars /\ WF_vars(TrackStep) /\ WF_vars(AdvanceTime)

(* ------------------------------------------------------------------ *)
(* Properties                                                          *)
(* ------------------------------------------------------------------ *)
nPoses == Len(pose_desired)
StepReturned == last_op = "step" /\ raised = NoError
LoadReturned ==
    last_op \in {"copyTrajectory", "generateTrajectory"} /\ raised = NoError
BothNonEmpty == u_desired # <<>> /\ pose_desired # <<>>

(* C1 as stated: with a trajectory of n poses loaded (time_end = n*dt),   *)
(* finished is false whenever current_time < n*dt and true whenever      *)
(* current_time >= n*dt, in every reachable state.                       *)
C1_FinishedIffTimePastEnd ==
    (pose_desired # <<>> /\ time_end = getStepTime * nPoses) =>
      (finished <=> current_time >= getStepTime * nPoses)

(* C1 amended: the flag is brought up to date only by a step.  A step     *)
(* that returns normally leaves finished true if current_time >= n*dt,   *)
(* and otherwise leaves it as it found it.                               *)
C1_FinishedUpdatedByStep ==
    [][(last_op' = "step" /\ raised' = NoError) =>
         (finished' <=>
            (finished \/ current_time' >= getStepTime' * Len(pose_desired')))
      ]_vars

(* a tracking step (it looked a sample up) that found the end reached *)
C1_Witness ==
    /\ StepReturned
    /\ index # <<>>
    /\ finished
    /\ current_time >= getStepTime * nPoses

(* C2: once finished is true it stays true through steps and time         *)
(* changes (also a decrease below the end); only copyTrajectory or        *)
(* generateTrajectory make it false again.                                *)
C2_FinishedLatched ==
    [][(finished /\ ~finished') =>
         last_op' \in {"copyTrajectory", "generateTrajectory"}]_vars

(* finished survived a step taken after the clock was set back *)
C2_Witness ==
    /\ StepReturned
    /\ finished
    /\ BothNonEmpty
    /\ current_time < getStepTime * nPoses

(* C3 as stated: after a load the stored poses are exactly those the      *)
(* most recent load produced, so their count and time_end depend on that *)
(* load alone.                                                           *)
C3_LoadReplacesPoses ==
    /\ (last_op = "copyTrajectory" /\ raised = NoError) =>
         \E lx \in Lengths :
            /\ pose_desired =
                 [i \in 1..lx |->
                    rotoTranslate(xSample(i), ySample(i), thetaSample(i))]
            /\ time_end = getStepTime * lx
    /\ last_op = "generateTrajectory" =>
         /\ Len(pose_desired) = Len(u_desired)
         /\ time_end = getStepTime * Len(u_desired)

(* C4: a step taken while the pose sequence or the input sequence is      *)
(* empty raises DESIRED_TRAJECTORY_INCOMPLETE with a zero output and      *)
(* changes nothing in the controller.                                     *)
C4_EmptyTrajectoryRaises ==
    [][(last_op' = "step" /\ (u_desired = <<>> \/ pose_desired = <<>>)) =>
         /\ raised' = DESIRED_TRAJECTORY_INCOMPLETE
         /\ u_out' = <<ZeroVel>>
         /\ UNCHANGED <<finished, current_time, time_end, e_x, e_y, e_theta,
                        pose_desired, u_desired, Kp, Ktheta, pose_offset,
                        RobotModel>>
      ]_vars

(* the guard fired with poses stored, no inputs, and finished false *)
C4_Witness ==
    /\ last_op = "step"
    /\ raised = DESIRED_TRAJECTORY_INCOMPLETE
    /\ u_out = <<ZeroVel>>
    /\ pose_desired # <<>>
    /\ u_desired = <<>>
    /\ ~finished

(* C5: every load that returns leaves finished false and                  *)
(* time_end = dt * (number of stored poses), whatever state it was        *)
(* called in.                                                             *)
C5_LoadEndsTracking ==
    LoadReturned =>
      (~finished /\ time_end = getStepTime * nPoses)

(* a load made with the clock already past the new end *)
C5_Witness ==
    /\ LoadReturned
    /\ pose_desired # <<>>
    /\ current_time >= time_end
    /\ ~finished
    /\ time_end = getStepTime * nPoses

(* C6: a step in state Finished with both sequences non-empty returns     *)
(* the zero command, performs no lookup and changes nothing.              *)
C6_FinishedStepIsInert ==
    [][(last_op' = "step" /\ finished /\ BothNonEmpty) =>
         /\ raised' = NoError
         /\ u_out' = <<ZeroVel>>
         /\ index' = <<>>
         /\ UNCHANGED <<e_x, e_y, e_theta, current_time, time_end, finished,
                        pose_desired, u_desired, Kp, Ktheta, pose_offset,
                        RobotModel>>
      ]_vars

(* a finished step that kept non-zero errors cached by earlier tracking *)
C6_Witness ==
    /\ StepReturned
    /\ finished
    /\ BothNonEmpty
    /\ index = <<>>
    /\ u_out = <<ZeroVel>>
    /\ e_x # 0

(* C7 as stated: with n >= 1 poses the index of every lookup lies in      *)
(* 0..n-1, for every time.                                                *)
C7_IndexInRangeForEveryTime ==
    (last_op = "step" /\ index # <<>>) =>
      (index[1] >= 0 /\ index[1] <= nPoses - 1)

(* C7 amended: for every time t >= 0 the index is round(t/dt), halves     *)
(* rounded up, clamped to n-1: it lies in 0..n-1, below n-1 it is the     *)
(* sample nearest to t, and it is n-1 for every t from (n - 3/2)*dt on.   *)
C7_IndexRoundedAndClamped ==
    (last_op = "step" /\ index # <<>> /\ current_time >= 0) =>
      LET i == index[1]
          d == getStepTime
          t == current_time
      IN /\ i >= 0
         /\ i <= nPoses - 1
         /\ (2 * i - 1) * d <= 2 * t
         /\ i < nPoses - 1 => 2 * t < (2 * i + 1) * d

(* a lookup at a time whose rounded quotient is past the last sample *)
C7_Witness ==
    /\ last_op = "step"
    /\ nPoses = 2
    /\ index = <<nPoses - 1>>
    /\ 2 * current_time >= (2 * nPoses + 1) * getStepTime

(* the pose reached from p0 after the first i inputs of us, one step each *)
RECURSIVE PoseAfter(_, _, _)
PoseAfter(p0, us, i) ==
    IF i = 0 THEN p0
    ELSE integrate([state |-> PoseAfter(p0, us, i - 1), u |-> us[i],
                    dt |-> getStepTime]).state

(* C8: generateTrajectory on an empty pose store with k inputs starts     *)
(* from the offset pose and stores k poses, pose i being the model state  *)
(* after inputs 0..i; the inputs are unchanged.                           *)
C8_GeneratedPoses ==
    [][(last_op' = "generateTrajectory" /\ pose_desired = <<>>) =>
         /\ u_desired' = u_desired
         /\ Len(pose_desired') = Len(u_desired)
         /\ \A i \in 1..Len(u_desired) :
               pose_desired'[i] = PoseAfter(pose_offset, u_desired, i)
         /\ RobotModel'.state =
               PoseAfter(pose_offset, u_desired, Len(u_desired))
      ]_vars

(* two poses generated from a rotated offset, the second after a turn *)
C8_Witness ==
    /\ last_op = "generateTrajectory"
    /\ Len(u_desired) = 2
    /\ Len(pose_desired) = 2
    /\ pose_offset # <<0, 0, 0>>
    /\ pose_desired[2][3] # pose_desired[1][3]

StraightLine(us) == us # <<>> /\ \A i \in 1..Len(us) : us[i] = <<us[1][1], 0>>

GeneratedFromOrigin ==
    /\ last_op = "generateTrajectory"
    /\ pose_offset = <<0, 0, 0>>
    /\ Len(pose_desired) = Len(u_desired)
    /\ StraightLine(u_desired)

(* C9 as stated: n repeats of (v, 0) from offset (0,0,0) give             *)
(* x_i = i*v*dt, y_i = 0, theta_i = 0 at every 0-based index i.           *)
C9_StraightLineFromZero ==
    GeneratedFromOrigin =>
      \A i \in 0..(nPoses - 1) :
         At(pose_desired, i) = <<i * u_desired[1][1] * getStepTime, 0, 0>>

(* C9 amended: the pose at 0-based index i is the one after i+1 steps:    *)
(* x_i = (i+1)*v*dt, y_i = 0, theta_i = 0.                                *)
C9_StraightLineAfterStep ==
    GeneratedFromOrigin =>
      \A i \in 0..(nPoses - 1) :
         At(pose_desired, i) =
           <<(i + 1) * u_desired[1][1] * getStepTime, 0, 0>>

(* two repeats of a straight input generated from the origin *)
C9_Witness ==
    /\ GeneratedFromOrigin
    /\ nPoses = 2
    /\ u_desired[1][1] > 0

(* C10: a step in state Tracking changes nothing but the cached errors;   *)
(* time, time_end, gains, both sequences, the offset and the model stay, *)
(* and finished becomes true only by the completion check.                *)
C10_TrackingStepFrame ==
    [][(last_op' = "step" /\ ~finished /\ BothNonEmpty) =>
         /\ UNCHANGED <<current_time, time_end, Kp, Ktheta, pose_desired,
                        u_desired, pose_offset, RobotModel>>
         /\ finished' => current_time >= getStepTime * nPoses
      ]_vars

(* a tracking step that cached a non-zero error and did not finish *)
C10_Witness ==
    /\ StepReturned
    /\ index # <<>>
    /\ ~finished
    /\ e_x # 0
    /\ u_out # <<>>
(* C11: a copyTrajectory that returns has stored the (v, omega) pairs      *)
(* unchanged and in order, and each pose sample (x, y, theta) as           *)
(*   x' = x0 + x*cos(th0) - y*sin(th0),                                    *)
(*   y' = y0 + x*sin(th0) + y*cos(th0),  th' = th0 + theta,                *)
(* which for the offset (0,0,0) is the sample itself.                      *)
C11_ReplayStoresSamples ==
    (last_op = "copyTrajectory" /\ raised = NoError) =>
      LET v == args[1]
          omega == args[2]
          x == args[3]
          y == args[4]
          theta == args[5]
          nu == Len(u_desired) - Len(v)
          np == Len(pose_desired) - Len(x)
          x0 == pose_offset[1]
          y0 == pose_offset[2]
          th0 == pose_offset[3]
      IN /\ nu >= 0
         /\ np >= 0
         /\ \A i \in 1..Len(v) : u_desired[nu + i] = <<v[i], omega[i]>>
         /\ \A i \in 1..Len(x) :
               pose_desired[np + i] =
                 <<x0 + x[i] * cos(th0) - y[i] * sin(th0),
                   y0 + x[i] * sin(th0) + y[i] * cos(th0),
                   th0 + theta[i]>>
         /\ pose_offset = <<0, 0, 0>> =>
               \A i \in 1..Len(x) :
                  pose_desired[np + i] = <<x[i], y[i], theta[i]>>

(* two samples of each kind stored under a rotated offset *)
C11_Witness ==
    /\ last_op = "copyTrajectory"
    /\ raised = NoError
    /\ pose_offset = <<1, 2, 1>>
    /\ Len(args[1]) = 2
    /\ Len(args[3]) = 2

(* the step evaluated the law with the robot exactly on the reference *)
OnReferenceStep ==
    /\ StepReturned
    /\ index # <<>>
    /\ args = <<At(pose_desired, index[1])>>

(* C12: a tracking step whose pose equals the reference pose leaves        *)
(* e_x = e_y = e_theta = 0, hence e_xy = 0 and dv = 0, and emits the       *)
(* reference linear velocity.                                              *)
C12_ZeroErrorFixedPoint ==
    OnReferenceStep =>
      /\ e_x = 0
      /\ e_y = 0
      /\ e_theta = 0
      /\ u_out[1].v = At(u_desired, index[1])[1]

(* on a reference pose away from the origin, with a moving reference *)
C12_Witness ==
    /\ OnReferenceStep
    /\ At(pose_desired, index[1]) # <<0, 0, 0>>
    /\ At(u_desired, index[1])[1] > 0

(* C13 as stated: whenever the law is evaluated at a time >= 0 the lookup  *)
(* index is a valid index of both the pose and the input sequence.         *)
C13_IndexValidForBoth ==
    (last_op = "step" /\ index # <<>> /\ current_time >= 0) =>
      (InRange(pose_desired, index[1]) /\ InRange(u_desired, index[1]))
(* the session tracks a trajectory of n >= 1 samples: n poses, n inputs *)
Complete == started /\ nPoses >= 1 /\ Len(u_desired) = nPoses

FirstStep == Complete /\ last_op = "step" /\ current_time = 0

(* C14: in a tracking session on a trajectory of n >= 1 samples the        *)
(* controller eventually reaches Finished, every index 0..n-1 is the       *)
(* reference of some step before that, and the index used by successive    *)
(* steps never decreases.                                                  *)
C14_TrackingCompletes ==
    /\ Complete ~> finished
    /\ \A i \in 0..(MaxStore - 1) :
          (FirstStep /\ i < nPoses) ~>
             (last_op = "step" /\ index = <<i>> /\ ~finished)
    /\ [][(index # <<>> /\ index' # <<>>) => index'[1] >= index[1]]_vars

(* a two-sample session that finished on the step at time 2*dt *)
C14_Witness ==
    /\ Complete
    /\ finished
    /\ nPoses = 2
    /\ index = <<1>>
    /\ current_time = 2 * getStepTime
=============================================================================
